---- MODULE Spec2Model ----
(***************************************************************************)
(* A model of sastopo2svg (src/src/lib.rs): run() rebuilds the SAS         *)
(* topology as a SasDigraph, build_svg() layers it with visit_vertex(),    *)
(* places one image group per layer entry, routes the connectors and       *)
(* writes sastopo.svg and sastopo2svg.html.                                *)
(*                                                                         *)
(* Identifiers (FMRIs) are the integers 1..NumVertices: a vertex record    *)
(* carries an FMRI read before or the smallest one not read yet.  An edge  *)
(* whose target is no FMRI of a record names a vertex that does not exist. *)
(* A string of the input is the sequence of the bytes of its UTF-8 form.   *)
(***************************************************************************)
EXTENDS Integers, Sequences, FiniteSets, TLC

VARIABLES
    phase,        \* position of run()/build_svg()
    result,       \* what run() returned ("none" while it is running)
    records,      \* run: number of vertex records read so far
    vertices,     \* SasDigraph.vertices: FMRI -> SasDigraphVertex
    initiators,   \* SasDigraph.initiators
    column_hash,  \* build_svg: depth -> list of FMRIs
    max_depth,    \* build_svg
    max_height,   \* build_svg
    depth,        \* build_svg: loop variable of the node and edge loops
    index,        \* build_svg: position in column_hash[depth] (0-based)
    document,     \* build_svg: the SVG elements added so far, in order
    svg_file,     \* <outdir>/sastopo.svg
    html_file,    \* <outdir>/sastopo2svg.html
    html_writes,  \* number of write_fmt calls on the HTML file that succeeded
    arg,          \* the argument of the function under test (SpecInstance, SpecProp)
    ret           \* its result (err = "none" before the call)

vars == <<phase, result, records, vertices, initiators, column_hash, max_depth,
          max_height, depth, index, document, svg_file, html_file, html_writes,
          arg, ret>>

\* the state of run() and build_svg()
runvars == <<phase, result, records, vertices, initiators, column_hash, max_depth,
             max_height, depth, index, document, svg_file, html_file, html_writes>>

(***************************************************************************)
(* Bounds of the model.                                                    *)
(***************************************************************************)
\* largest number of vertex records in the input
NumVertices == 3
\* largest total number of edge elements in the input
MaxEdges == 2
\* longest instance string (SpecInstance), in characters
MaxInstanceLen == 4
\* largest number of nvpairs of a property nvlist (SpecProp)
MaxPairs == 2
\* largest number of elements of an array value (SpecProp)
MaxElements == 3
\* largest number of initiators of a comb graph (SpecCanvas)
MaxRoots == 3
\* largest number of vertices of the chain of a comb graph (SpecCanvas)
MaxChain == 5
\* largest number of leaves of a comb graph (SpecCanvas)
MaxFan == 8

(***************************************************************************)
(* Constants of the program.                                               *)
(***************************************************************************)
INITIATOR == "initiator"
PORT == "port"
EXPANDER == "expander"
TARGET == "target"

vtx_width == 120
vtx_height == 120
x_margin == 50
y_margin == 10
ColumnPitch == 250
RowPitch == 150
ExitLength == 50
MinSvgWidth == 1200
MinSvgHeight == 1100
HtmlWriteCalls == 3
\* topo_digraph_xml: the nvpair names of a property group and of a property
PG_NAME == "property-group-name"
PG_VALS == "property-values"
PROP_NAME == "property-name"
PROP_VALUE == "property-value"
\* u64 arithmetic: a value is four 16-bit limbs, most significant first
LimbBase == 65536
Radix == 16

(***************************************************************************)
(* Option<Vec<String>>                                                     *)
(***************************************************************************)
None == [some |-> FALSE, val |-> <<>>]
Some(v) == [some |-> TRUE, val |-> v]

Max(a, b) == IF a > b THEN a ELSE b

\* The recursion of visit_vertex has no guard of its own: it ends when the
\* walk is over or when the thread's stack is exhausted.  How many frames of
\* visit_vertex the stack holds is not in the source: the stack limit of the
\* process sets it, to any number (Some(n): room for n calls in progress, at
\* least the first) or to none (None: no limit).  Of the limited stacks the
\* small ones are kept: what a larger one does to a walk, a smaller one or
\* an unlimited one does as well.
StackSizes == {Some(n) : n \in 1..NumVertices} \cup {None}

(***************************************************************************)
(* Option<String>                                                          *)
(***************************************************************************)
NoneStr == [some |-> FALSE, val |-> ""]
SomeStr(v) == [some |-> TRUE, val |-> v]

(***************************************************************************)
(* u64::from_str_radix(&vtxxml.instance[2..], 16).  A string is the        *)
(* sequence of its bytes (0..255); a u64 is four 16-bit limbs.             *)
(***************************************************************************)
U64Zero == <<0, 0, 0, 0>>

\* (c as char).to_digit(16) of the byte c: -1 stands for None
to_digit(c) ==
    IF c >= 48 /\ c <= 57 THEN c - 48           \* '0'..'9'
    ELSE IF c >= 97 /\ c <= 102 THEN c - 87     \* 'a'..'f'
    ELSE IF c >= 65 /\ c <= 70 THEN c - 55      \* 'A'..'F'
    ELSE -1

\* u64::checked_mul by a small factor
checked_mul(v, m) ==
    LET t4 == v[4] * m
        t3 == v[3] * m + (t4 \div LimbBase)
        t2 == v[2] * m + (t3 \div LimbBase)
        t1 == v[1] * m + (t2 \div LimbBase)
    IN  [some |-> t1 < LimbBase,
         val |-> <<t1 % LimbBase, t2 % LimbBase, t3 % LimbBase, t4 % LimbBase>>]

\* u64::checked_add of a small number
checked_add(v, d) ==
    LET t4 == v[4] + d
        t3 == v[3] + (t4 \div LimbBase)
        t2 == v[2] + (t3 \div LimbBase)
        t1 == v[1] + (t2 \div LimbBase)
    IN  [some |-> t1 < LimbBase,
         val |-> <<t1 % LimbBase, t2 % LimbBase, t3 % LimbBase, t4 % LimbBase>>]

ParseIntError == [err |-> "ParseIntError", val |-> U64Zero]

\* the loop over the digits of from_str_radix, from the i-th one on
RECURSIVE parse_digits(_, _, _)
parse_digits(digits, i, acc) ==
    IF i > Len(digits)
    THEN [err |-> "Ok", val |-> acc]
    ELSE IF to_digit(digits[i]) < 0
    THEN ParseIntError
    ELSE LET m == checked_mul(acc, Radix)
         IN  IF ~m.some
             THEN ParseIntError
             ELSE LET a == checked_add(m.val, to_digit(digits[i]))
                  IN  IF ~a.some
                      THEN ParseIntError
                      ELSE parse_digits(digits, i + 1, a.val)

from_str_radix(src) ==
    IF Len(src) = 0
    THEN ParseIntError
    ELSE LET digits == IF src[1] = 43 THEN Tail(src) ELSE src    \* 43 is '+'
         IN  IF Len(digits) = 0
             THEN ParseIntError
             ELSE parse_digits(digits, 1, U64Zero)

\* str::is_char_boundary: the byte offset idx is the start or the end of
\* the string, or the byte at that offset is no continuation byte (10xxxxxx)
is_char_boundary(s, idx) ==
    IF idx = 0 THEN TRUE
    ELSE IF idx >= Len(s) THEN idx = Len(s)
    ELSE s[idx + 1] < 128 \/ s[idx + 1] >= 192

\* run: `&vtxxml.instance[2..]` slices by bytes and panics when the string
\* has fewer than two bytes or its third byte is inside a character
decode_instance(instance) ==
    IF ~is_char_boundary(instance, 2)
    THEN [err |-> "Panic", val |-> U64Zero]
    ELSE from_str_radix(SubSeq(instance, 3, Len(instance)))

(***************************************************************************)
(* parse_prop.  An NvlistXmlArrayElement is [nvpairs: Option<Vec<nvpair>>],*)
(* an nvpair [name, value: Option<String>, nvpair_elements: Option<Vec>],  *)
(* an element of an array value [value: Option<String>].                   *)
(***************************************************************************)
PropPanic == [err |-> "Panic", name |-> "", value |-> ""]

\* the loop that pushes the elements' values, from the i-th element on
RECURSIVE valarr(_, _)
valarr(elems, i) ==
    IF i > Len(elems) THEN [some |-> TRUE, val |-> <<>>]
    ELSE IF ~elems[i].value.some
    THEN [some |-> FALSE, val |-> <<>>]
    ELSE LET rest == valarr(elems, i + 1)
         IN  IF rest.some
             THEN [some |-> TRUE, val |-> <<elems[i].value.val>> \o rest.val]
             ELSE rest

\* Vec<String>::join(",")
RECURSIVE join(_, _)
join(strs, i) ==
    IF i > Len(strs) THEN ""
    ELSE IF i = Len(strs) THEN strs[i]
    ELSE strs[i] \o "," \o join(strs, i + 1)

\* the loop over nvl.nvpairs, from the i-th nvpair on
RECURSIVE parse_nvpairs(_, _, _, _)
parse_nvpairs(nvpairs, i, propname, propval) ==
    IF i > Len(nvpairs)
    THEN IF propname.some /\ propval.some
         THEN [err |-> "Ok", name |-> propname.val, value |-> propval.val]
         ELSE [err |-> "MalformedInput", name |-> "", value |-> ""]
    ELSE LET nvpair == nvpairs[i]
         IN  IF ~nvpair.name.some
             THEN PropPanic
             ELSE IF nvpair.name.val = PROP_NAME
             THEN IF ~nvpair.value.some
                  THEN PropPanic
                  ELSE parse_nvpairs(nvpairs, i + 1, SomeStr(nvpair.value.val), propval)
             ELSE IF nvpair.name.val = PROP_VALUE
             THEN IF nvpair.nvpair_elements.some
                  THEN LET arr == valarr(nvpair.nvpair_elements.val, 1)
                       IN  IF ~arr.some
                           THEN PropPanic
                           ELSE parse_nvpairs(nvpairs, i + 1, propname,
                                              SomeStr(join(arr.val, 1)))
                  ELSE IF ~nvpair.value.some
                  THEN PropPanic
                  ELSE parse_nvpairs(nvpairs, i + 1, propname, SomeStr(nvpair.value.val))
             ELSE parse_nvpairs(nvpairs, i + 1, propname, propval)

parse_prop(nvl) ==
    IF nvl.nvpairs.some
    THEN parse_nvpairs(nvl.nvpairs.val, 1, NoneStr, NoneStr)
    ELSE [err |-> "MalformedInput", name |-> "", value |-> ""]

(***************************************************************************)
(* run: the loop over vtxxml.propgroups.  A property group list is         *)
(* [nvlist_elements: Option<Vec<group>>], a group [nvpairs: Option<Vec>],  *)
(* an nvpair of a group has, besides name and value, nvlist_elements:      *)
(* Option<Vec<NvlistXmlArrayElement>>, the properties.  The result carries *)
(* the Result (err) and the properties pushed to the vertex.               *)
(***************************************************************************)
SasDigraphProperty(name, value) == [name |-> name, value |-> value]

\* the loop over pg.nvpairs, from the i-th nvpair on
RECURSIVE parse_pgnvpairs(_, _, _, _)
parse_pgnvpairs(nvpairs, i, pgname, props) ==
    IF i > Len(nvpairs)
    THEN [err |-> "Ok", pgname |-> pgname, props |-> props]
    ELSE LET pgnvp == nvpairs[i]
         IN  IF ~pgnvp.name.some
             THEN [err |-> "Panic", pgname |-> pgname, props |-> props]
             ELSE IF pgnvp.name.val = PG_NAME
             THEN IF ~pgnvp.value.some
                  THEN [err |-> "Panic", pgname |-> pgname, props |-> props]
                  ELSE parse_pgnvpairs(nvpairs, i + 1, pgnvp.value.val, props)
             ELSE IF pgnvp.name.val = PG_VALS
             THEN parse_pgnvpairs(nvpairs, i + 1, pgname,
                                  IF pgnvp.nvlist_elements.some
                                  THEN Some(pgnvp.nvlist_elements.val)
                                  ELSE props)
             ELSE [err |-> "UnexpectedNvpairName", pgname |-> pgname, props |-> props]

\* the loop over props, from the i-th property on
RECURSIVE parse_props(_, _, _)
parse_props(props, i, properties) ==
    IF i > Len(props)
    THEN [err |-> "Ok", properties |-> properties]
    ELSE LET prop == parse_prop(props[i])
         IN  IF prop.err # "Ok"
             THEN [err |-> prop.err, properties |-> properties]
             ELSE parse_props(props, i + 1,
                              Append(properties, SasDigraphProperty(prop.name, prop.value)))

\* one iteration of the loop over pgarr
parse_pg(pg, properties) ==
    LET r == IF pg.nvpairs.some
             THEN parse_pgnvpairs(pg.nvpairs.val, 1, "", None)
             ELSE [err |-> "Ok", pgname |-> "", props |-> None]
    IN  IF r.err # "Ok"
        THEN [err |-> r.err, properties |-> properties]
        ELSE IF r.pgname = ""
        THEN [err |-> "MalformedPropgroup", properties |-> properties]
        ELSE IF ~r.props.some
        THEN [err |-> "Ok", properties |-> properties]
        ELSE IF r.pgname = "protocol"
        THEN [err |-> "Ok", properties |-> properties]
        ELSE parse_props(r.props.val, 1, properties)

\* the loop over pgarr, from the i-th group on
RECURSIVE parse_pgarr(_, _, _)
parse_pgarr(pgarr, i, properties) ==
    IF i > Len(pgarr)
    THEN [err |-> "Ok", properties |-> properties]
    ELSE LET r == parse_pg(pgarr[i], properties)
         IN  IF r.err # "Ok" THEN r ELSE parse_pgarr(pgarr, i + 1, r.properties)

\* the loop over vtxxml.propgroups, from the i-th list on
RECURSIVE parse_propgroups(_, _, _)
parse_propgroups(propgroups, i, properties) ==
    IF i > Len(propgroups)
    THEN [err |-> "Ok", properties |-> properties]
    ELSE IF ~propgroups[i].nvlist_elements.some
    THEN [err |-> "Panic", properties |-> properties]
    ELSE LET r == parse_pgarr(propgroups[i].nvlist_elements.val, 1, properties)
         IN  IF r.err # "Ok" THEN r ELSE parse_propgroups(propgroups, i + 1, r.properties)

(***************************************************************************)
(* SasGeometry::new and SasDigraphVertex::new                              *)
(***************************************************************************)
SasGeometry(x, y, width, height) ==
    [x |-> x, y |-> y, width |-> width, height |-> height]

SasDigraphVertex(fmri, name, instance, outgoing_edges) ==
    [fmri |-> fmri, name |-> name, instance |-> instance,
     properties |-> <<>>, geometry |-> SasGeometry(0, 0, 0, 0),
     outgoing_edges |-> outgoing_edges]

(***************************************************************************)
(* HashMap insert and entry(..).or_insert_with(Vec::new).push(..)          *)
(***************************************************************************)
Insert(map, key, value) ==
    [k \in DOMAIN map \cup {key} |-> IF k = key THEN value ELSE map[k]]

\* a Push that leaves out an identifier the list already holds
Push_dedup(hash, key, fmri) ==
    IF key \in DOMAIN hash
    THEN IF \E i \in DOMAIN hash[key] : hash[key][i] = fmri
         THEN hash
         ELSE [hash EXCEPT ![key] = Append(@, fmri)]
    ELSE Insert(hash, key, <<fmri>>)

Push(hash, key, fmri) ==
    IF key \in DOMAIN hash
    THEN [hash EXCEPT ![key] = Append(@, fmri)]
    ELSE Insert(hash, key, <<fmri>>)

EmptyMap == [k \in {} |-> 0]

(***************************************************************************)
(* visit_vertex: the depth-first walk.  The result carries the Result of   *)
(* the call (err = "Ok" and rc, or the error) and the column_hash it has   *)
(* written.  frames is the number of frames the stack holds, if limited;   *)
(* path holds the vertices of the calls in progress: a call for one of     *)
(* them repeats the calls that led to it without end, which exhausts every *)
(* stack (and, without a stack limit, the memory).                         *)
(***************************************************************************)
RECURSIVE visit_vertex(_, _, _, _, _, _)
RECURSIVE visit_edges(_, _, _, _, _, _, _, _)

visit_vertex(vtxs, fmri, hash, d, path, frames) ==
    IF fmri \in path \/ (frames.some /\ d >= frames.val)
    THEN [err |-> "StackOverflow", rc |-> 0, hash |-> hash]
    ELSE LET md == d + 1
             h1 == Push(hash, md, vtxs[fmri].fmri)
         IN  IF vtxs[fmri].outgoing_edges.some
             THEN visit_edges(vtxs, vtxs[fmri].outgoing_edges.val, 1, h1, d, md,
                              path \cup {fmri}, frames)
             ELSE [err |-> "Ok", rc |-> md, hash |-> h1]

\* the loop over vtx.outgoing_edges, from its i-th element on
visit_edges(vtxs, edges, i, hash, d, md, path, frames) ==
    IF i > Len(edges)
    THEN [err |-> "Ok", rc |-> md, hash |-> hash]
    ELSE IF edges[i] \notin DOMAIN vtxs
    THEN [err |-> "LookupFailure", rc |-> 0, hash |-> hash]
    ELSE LET r == visit_vertex(vtxs, edges[i], hash, d + 1, path, frames)
         IN  IF r.err # "Ok"
             THEN r
             ELSE visit_edges(vtxs, edges, i + 1, r.hash, d, Max(r.rc, md), path, frames)

\* build_svg: the loop over digraph.initiators, from its i-th element on
RECURSIVE visit_initiators(_, _, _, _, _, _)
visit_initiators(vtxs, inits, i, hash, md, frames) ==
    IF i > Len(inits)
    THEN [err |-> "Ok", rc |-> md, hash |-> hash]
    ELSE IF inits[i] \notin DOMAIN vtxs
    THEN [err |-> "LookupFailure", rc |-> 0, hash |-> hash]
    ELSE LET r == visit_vertex(vtxs, inits[i], hash, 0, {}, frames)
         IN  IF r.err # "Ok"
             THEN r
             ELSE visit_initiators(vtxs, inits, i + 1, r.hash, Max(r.rc, md), frames)

\* build_svg: the loop that computes max_height, from depth i on
RECURSIVE column_heights(_, _, _, _)
column_heights(hash, i, md, mh) ==
    IF i > md
    THEN mh
    ELSE LET height == IF i \in DOMAIN hash THEN Len(hash[i]) ELSE 0
         IN  column_heights(hash, i + 1, md, Max(height, mh))

(***************************************************************************)
(* The input of run(): vertex records.                                     *)
(***************************************************************************)
RECURSIVE SeqsUpTo(_, _)
SeqsUpTo(S, n) ==
    IF n = 0 THEN {<<>>}
    ELSE LET shorter == SeqsUpTo(S, n - 1)
         IN  shorter \cup {Append(s, e) : s \in {t \in shorter : Len(t) = n - 1}, e \in S}

RECURSIVE SumEdges(_, _)
SumEdges(vtxs, keys) ==
    IF keys = {} THEN 0
    ELSE LET k == CHOOSE k \in keys : TRUE
         IN  Len(vtxs[k].outgoing_edges.val) + SumEdges(vtxs, keys \ {k})

\* the kinds of the input: two that have an icon and, for a record without an
\* edge list, one that has none
Names(oe) == IF oe.some THEN {INITIATOR, PORT} ELSE {INITIATOR, PORT, "enclosure"}

\* the instance strings of the input that do not decode: "0xzz" (no hex
\* digits), "0" (too short) and "0" followed by the two bytes of U+00E9
RunInstances == {<<48, 120, 122, 122>>, <<48>>, <<48, 195, 169>>}

EdgeInputs(budget) ==
    {None} \cup {Some(s) : s \in SeqsUpTo(1..NumVertices, budget)}

\* the FMRI of the next record: one read before, or the next new one
FmriInputs(vtxs) == DOMAIN vtxs \cup {Cardinality(DOMAIN vtxs) + 1}

\* an nvpair of a property group or of a property
Nvpair(name, value, nvlist_elements) ==
    [name |-> name, value |-> value, nvpair_elements |-> None,
     nvlist_elements |-> nvlist_elements]

\* the nvlist of the property name = value
PropNvl(name, value) ==
    [nvpairs |-> Some(<<Nvpair(SomeStr(PROP_NAME), SomeStr(name), None),
                        Nvpair(SomeStr(PROP_VALUE), SomeStr(value), None)>>)]

\* the group pgname with the properties props
Propgroup(pgname, props) ==
    [nvpairs |-> Some(<<Nvpair(SomeStr(PG_NAME), SomeStr(pgname), None),
                        Nvpair(SomeStr(PG_VALS), NoneStr, Some(props))>>)]

\* groups that give the vertex no property: without nvpairs, with an nvpair
\* without a name, with a name nvpair without a value, with an nvpair of
\* another name, without a name nvpair, without properties, the group
\* "protocol", with a property without a value, with a property whose nvpair
\* has no name
BareGroups ==
    {[nvpairs |-> None],
     [nvpairs |-> Some(<<Nvpair(NoneStr, NoneStr, None)>>)],
     [nvpairs |-> Some(<<Nvpair(SomeStr(PG_NAME), NoneStr, None)>>)],
     [nvpairs |-> Some(<<Nvpair(SomeStr("other"), SomeStr("v"), None)>>)],
     [nvpairs |-> Some(<<Nvpair(SomeStr(PG_VALS), NoneStr,
                                Some(<<PropNvl("serial", "abc")>>))>>)],
     [nvpairs |-> Some(<<Nvpair(SomeStr(PG_NAME), SomeStr("storage"), None)>>)],
     Propgroup("protocol", <<PropNvl("serial", "abc")>>),
     Propgroup("storage",
               <<[nvpairs |-> Some(<<Nvpair(SomeStr(PROP_NAME), SomeStr("serial"), None)>>)]>>),
     Propgroup("storage", <<[nvpairs |-> Some(<<Nvpair(NoneStr, NoneStr, None)>>)]>>)}

\* groups that give the vertex properties: serial, and two that are named
\* like the attributes build_svg sets itself
PropertyGroups ==
    {Propgroup("storage", <<PropNvl("serial", "abc")>>),
     Propgroup("storage", <<PropNvl("fmri", "zz"), PropNvl("name", "yy")>>)}

\* the property groups of a record: a list without elements, a list of one
\* group, and the group "protocol" followed by a group with properties
RunPropgroups ==
    {<<[nvlist_elements |-> None]>>}
    \cup {<<[nvlist_elements |-> Some(<<pg>>)]>> : pg \in BareGroups}
    \cup {<<[nvlist_elements |->
                Some(<<Propgroup("protocol", <<PropNvl("serial", "abc")>>), pg>>)]>> :
             pg \in PropertyGroups}

\* a vertex record of the input
VertexXml(fmri, instance, name, outgoing_edges, propgroups) ==
    [fmri |-> fmri, instance |-> instance, name |-> name,
     outgoing_edges |-> outgoing_edges, propgroups |-> propgroups]

\* the next vertex record, after the records that made vtxs: a record with
\* the instance "0x1f" and no property group, of any kind, edge list and FMRI;
\* a port whose instance does not decode (nothing else of such a record is
\* read); and, as the first record, an initiator with property groups
RecordInputs(vtxs) ==
    LET new == Cardinality(DOMAIN vtxs) + 1
        budget == MaxEdges - SumEdges(vtxs, DOMAIN vtxs)
    IN  UNION {{VertexXml(fmri, <<48, 120, 49, 102>>, name, oe, <<>>) :
                   fmri \in FmriInputs(vtxs), name \in Names(oe)} :
                oe \in EdgeInputs(budget)}
        \cup {VertexXml(new, instance, PORT, None, <<>>) : instance \in RunInstances}
        \cup (IF vtxs = EmptyMap
              THEN {VertexXml(new, <<48, 120, 49, 102>>, INITIATOR, Some(<<>>), propgroups) :
                       propgroups \in RunPropgroups}
              ELSE {})

(***************************************************************************)
(* The state at the start of run(): nothing read, nothing written.         *)
(***************************************************************************)
Init ==
    /\ phase = "read"
    /\ result = "none"
    /\ records = 0
    /\ vertices = EmptyMap
    /\ initiators = <<>>
    /\ column_hash = EmptyMap
    /\ max_depth = 0
    /\ max_height = 0
    /\ depth = 0
    /\ index = 0
    /\ document = <<>>
    /\ svg_file = "absent"
    /\ html_file = "absent"
    /\ html_writes = 0
    /\ arg = <<>>
    /\ ret = [err |-> "none"]

Fail(err) ==
    /\ phase' = "done"
    /\ result' = err

(***************************************************************************)
(* run: the input file is read and deserialised; either can fail           *)
(***************************************************************************)
ReadInput ==
    /\ phase = "read"
    /\ \/ phase' = "run" /\ result' = result
       \/ Fail("IoReadInput")
       \/ Fail("Deserialize")
    /\ UNCHANGED <<records, vertices, initiators, column_hash, max_depth, max_height,
                   depth, index, document, svg_file, html_file, html_writes>>
    /\ UNCHANGED <<arg, ret>>

(***************************************************************************)
(* run: one iteration of the loop over sasxml.vertices.vertex              *)
(***************************************************************************)
RunVertex ==
    /\ phase = "run"
    /\ records < NumVertices
    /\ \E vtxxml \in RecordInputs(vertices) :
          LET inst == decode_instance(vtxxml.instance)
              new == SasDigraphVertex(vtxxml.fmri, vtxxml.name, inst.val,
                                      vtxxml.outgoing_edges)
              pgs == parse_propgroups(vtxxml.propgroups, 1, new.properties)
              vtx == [new EXCEPT !.properties = pgs.properties]
          IN  IF inst.err # "Ok"
              THEN /\ Fail(IF inst.err = "Panic" THEN "Panic" ELSE "MalformedInput")
                   /\ UNCHANGED <<records, vertices, initiators>>
              ELSE IF pgs.err # "Ok"
              THEN /\ Fail(pgs.err)
                   /\ UNCHANGED <<records, vertices, initiators>>
              ELSE /\ initiators' = IF vtx.name = INITIATOR
                                    THEN Append(initiators, vtx.fmri)
                                    ELSE initiators
                   /\ vertices' = Insert(vertices, vtx.fmri, vtx)
                   /\ records' = records + 1
                   /\ UNCHANGED <<phase, result>>
    /\ UNCHANGED <<column_hash, max_depth, max_height, depth,
                   index, document, svg_file, html_file, html_writes>>
    /\ UNCHANGED <<arg, ret>>

(***************************************************************************)
(* build_svg: the walk from every initiator, max_height, the new Document  *)
(***************************************************************************)
Layering ==
    /\ phase = "run"
    /\ \E frames \in StackSizes :
          LET r == visit_initiators(vertices, initiators, 1, EmptyMap, 0, frames)
          IN  IF r.err # "Ok"
              THEN /\ Fail(r.err)
                   /\ UNCHANGED <<column_hash, max_depth, max_height, depth, index, document>>
              ELSE /\ column_hash' = r.hash
                   /\ max_depth' = r.rc
                   /\ max_height' = column_heights(r.hash, 1, r.rc, 0)
                   /\ document' = <<[kind |-> "script"], [kind |-> "filter"],
                                    [kind |-> "hostprops"]>>
                   /\ depth' = 1
                   /\ index' = 0
                   /\ phase' = IF r.rc >= 1 THEN "nodes" ELSE "mkdir"
                   /\ result' = result
    /\ records' = 0    \* the loop over the records is over, its position is gone
    /\ UNCHANGED <<vertices, initiators, svg_file, html_file, html_writes>>
    /\ UNCHANGED <<arg, ret>>

\* loops that leave out the last entry of a layer of several
NextPos_skip(hash, d, i) ==
    IF i + 2 < Len(hash[d]) THEN <<d, i + 1>> ELSE <<d + 1, 0>>

\* the position after (d, i) of the two nested loops over column_hash:
\* `for depth in 1..=max_depth` and, inside, the loop over column_hash[depth]
NextPos(hash, d, i) ==
    IF i + 1 < Len(hash[d]) THEN <<d, i + 1>> ELSE <<d + 1, 0>>

NextDepth == NextPos(column_hash, depth, index)[1]
NextIndex == NextPos(column_hash, depth, index)[2]

\* a placement that forgets to write y
place_stale(vtxs, fmri, x, y) ==
    [vtxs EXCEPT ![fmri].geometry = SasGeometry(x, vtxs[fmri].geometry.y, vtx_width, vtx_height)]

\* build_svg: the geometry written to the vertex that has just been placed
place(vtxs, fmri, x, y) ==
    [vtxs EXCEPT ![fmri].geometry = SasGeometry(x, y, vtx_width, vtx_height)]

imguri(name) ==
    CASE name = INITIATOR -> "assets/icons/initiator.png"
      [] name = PORT -> "assets/icons/port.png"
      [] name = EXPANDER -> "assets/icons/expander.png"
      [] name = TARGET -> "assets/icons/target.png"
      [] OTHER -> "unexpected vertex name"

\* a spacing factor with the operands of the division swapped
y_factor_swapped(height, mh, len) == IF height = 1 THEN 1 ELSE len \div mh

y_factor(height, mh, len) == IF height = 1 THEN 1 ELSE mh \div len

\* svg: Node::set on the group for the properties from the i-th one on; the
\* attributes of an element are a map, so a name set again has the new value
RECURSIVE set_properties(_, _, _)
set_properties(attrs, props, i) ==
    IF i > Len(props) THEN attrs
    ELSE set_properties(Insert(attrs, props[i].name, props[i].value), props, i + 1)

\* build_svg: the attributes of the group of a vertex
vtx_group(vtx, vtx_fmri) ==
    set_properties(
        Insert(Insert(Insert(EmptyMap, "onclick", "showInfo(evt)"), "name", vtx.name),
               "fmri", ToString(vtx_fmri)),
        vtx.properties, 1)

(***************************************************************************)
(* build_svg: one iteration of the loop that places a vertex.  vtx is not  *)
(* an attribute of the group: it records which vertex the group is for.    *)
(***************************************************************************)
EmitNode ==
    /\ phase = "nodes"
    /\ LET vs == column_hash[depth]
           height == index + 1
           vtx_fmri == vs[index + 1]
           vtx == vertices[vtx_fmri]
           x == ((depth - 1) * ColumnPitch) + x_margin
           y == ((height - 1) * RowPitch * y_factor(height, max_height, Len(vs))) + y_margin
       IN  IF imguri(vtx.name) = "unexpected vertex name"
           THEN /\ Fail("UnexpectedVertexName")
                /\ UNCHANGED <<vertices, document, depth, index>>
           ELSE /\ vertices' = place(vertices, vtx_fmri, x, y)
                /\ document' = Append(document,
                                  [kind |-> "node", vtx |-> vtx_fmri,
                                   attrs |-> vtx_group(vtx, vtx_fmri),
                                   href |-> imguri(vtx.name), x |-> x, y |-> y,
                                   width |-> vtx_width, height |-> vtx_height])
                /\ depth' = IF NextDepth > max_depth THEN 1 ELSE NextDepth
                /\ index' = NextIndex
                /\ phase' = IF NextDepth > max_depth THEN "edges" ELSE "nodes"
                /\ result' = result
    /\ UNCHANGED <<records, initiators, column_hash, max_depth, max_height,
                   svg_file, html_file, html_writes>>
    /\ UNCHANGED <<arg, ret>>

\* Line::new().  src, dst and role are not attributes of the SVG element: they
\* record which vertex's iteration added the line, for which edge target (src
\* itself for the exit line) and as which of the three lines.
Line(src, dst, role, x1, y1, x2, y2) ==
    [kind |-> "line", src |-> src, dst |-> dst, role |-> role,
     x1 |-> x1, y1 |-> y1, x2 |-> x2, y2 |-> y2]

\* the two lines of the loop over vtx.outgoing_edges, from its i-th element on
RECURSIVE edge_lines(_, _, _, _, _)
edge_lines(src, edges, i, start_x2, start_y2) ==
    IF i > Len(edges) THEN <<>>
    ELSE LET edge_vtx == vertices[edges[i]]
             mid_y2 == edge_vtx.geometry.y + (vtx_height \div 2)
             end_y1 == edge_vtx.geometry.y + (vtx_height \div 2)
         IN  <<Line(src, edges[i], "mid", start_x2, start_y2, start_x2, mid_y2),
               Line(src, edges[i], "end", start_x2, end_y1, edge_vtx.geometry.x, end_y1)>>
             \o edge_lines(src, edges, i + 1, start_x2, start_y2)

connectors(vtx_fmri) ==
    LET vtx == vertices[vtx_fmri]
        start_x1 == vtx.geometry.x + vtx_width
        start_y1 == vtx.geometry.y + (vtx_height \div 2)
        start_x2 == start_x1 + ExitLength
        start_y2 == start_y1
    IN  IF ~vtx.outgoing_edges.some
        THEN <<>>
        ELSE <<Line(vtx_fmri, vtx_fmri, "exit", start_x1, start_y1, start_x2, start_y2)>>
             \o edge_lines(vtx_fmri, vtx.outgoing_edges.val, 1, start_x2, start_y2)

(***************************************************************************)
(* build_svg: one iteration of the loop that draws a vertex's edges        *)
(***************************************************************************)
EmitConnectors ==
    /\ phase = "edges"
    /\ document' = document \o connectors(column_hash[depth][index + 1])
    /\ depth' = NextDepth
    /\ index' = NextIndex
    /\ phase' = IF NextDepth > max_depth THEN "mkdir" ELSE "edges"
    /\ UNCHANGED <<result, records, vertices, initiators, column_hash, max_depth,
                   max_height, svg_file, html_file, html_writes>>
    /\ UNCHANGED <<arg, ret>>

\* build_svg: the size of the iframe written to the HTML file
svg_width == Max(MinSvgWidth, max_depth * ColumnPitch)
svg_height == Max(MinSvgHeight, max_height * RowPitch)

(***************************************************************************)
(* build_svg: the output steps; each of them can fail                      *)
(***************************************************************************)
IoStep(here, next, err) ==
    /\ phase = here
    /\ \/ phase' = next /\ result' = result
       \/ Fail(err)

CreateDir ==
    /\ IoStep("mkdir", "copy", "IoCreateDir")
    /\ UNCHANGED <<records, vertices, initiators, column_hash, max_depth, max_height,
                   depth, index, document, svg_file, html_file, html_writes>>
    /\ UNCHANGED <<arg, ret>>

\* current_exe() can fail, the directory of the executable can have a name
\* that is not UTF-8 (to_str().unwrap() panics), the copy can fail
CopyAssets ==
    /\ \/ IoStep("copy", "save", "IoCopyAssets")
       \/ phase = "copy" /\ Fail("IoCurrentExe")
       \/ phase = "copy" /\ Fail("PanicSrcDir")
    /\ UNCHANGED <<records, vertices, initiators, column_hash, max_depth, max_height,
                   depth, index, document, svg_file, html_file, html_writes>>
    /\ UNCHANGED <<arg, ret>>

\* a save that reports success without having written the file
SaveSvg_skip ==
    /\ phase = "save"
    /\ \/ phase' = "create" /\ result' = result /\ svg_file' = svg_file
       \/ Fail("IoSaveSvg") /\ svg_file' \in {"absent", "partial"}
    /\ UNCHANGED <<records, vertices, initiators, column_hash, max_depth, max_height,
                   depth, index, document, html_file, html_writes>>
    /\ UNCHANGED <<arg, ret>>

SaveSvg ==
    /\ phase = "save"
    /\ \/ phase' = "create" /\ result' = result /\ svg_file' = "written"
       \/ Fail("IoSaveSvg") /\ svg_file' \in {"absent", "partial"}
    /\ UNCHANGED <<records, vertices, initiators, column_hash, max_depth, max_height,
                   depth, index, document, html_file, html_writes>>
    /\ UNCHANGED <<arg, ret>>

CreateHtml ==
    /\ phase = "create"
    /\ \/ phase' = "write" /\ result' = result /\ html_file' = "created"
       \/ Fail("IoCreateHtml") /\ html_file' = html_file
    /\ UNCHANGED <<records, vertices, initiators, column_hash, max_depth, max_height,
                   depth, index, document, svg_file, html_writes>>
    /\ UNCHANGED <<arg, ret>>

WriteHtml ==
    /\ phase = "write"
    /\ \/ /\ html_writes' = html_writes + 1
          /\ IF html_writes + 1 = HtmlWriteCalls
             THEN phase' = "done" /\ result' = "Ok" /\ html_file' = "written"
             ELSE phase' = phase /\ result' = result /\ html_file' = "partial"
       \* write_all may have written part of the bytes when it fails
       \/ Fail("IoWriteHtml") /\ html_file' \in {html_file, "partial"}
                              /\ html_writes' = html_writes
    /\ UNCHANGED <<records, vertices, initiators, column_hash, max_depth, max_height,
                   depth, index, document, svg_file>>
    /\ UNCHANGED <<arg, ret>>

Next ==
    \/ ReadInput
    \/ RunVertex
    \/ Layering
    \/ EmitNode
    \/ EmitConnectors
    \/ CreateDir
    \/ CopyAssets
    \/ SaveSvg
    \/ CreateHtml
    \/ WriteHtml

Spec == Init /\ [][Next]_vars

(***************************************************************************)
(* The decoding of the instance field on its own, over all short strings   *)
(* and three long ones (the largest u64, one past it, a leading zero).     *)
(***************************************************************************)
\* the bytes of '0', 'x', '1', 'f', 'g', '+' and the two bytes of U+00E9
InstanceBytes == {48, 120, 49, 102, 103, 43, 195, 169}

\* a continuation byte of UTF-8
Continuation(b) == b >= 128 /\ b <= 191

\* the bytes from the i-th one on are UTF-8, as those of every String are
RECURSIVE IsUtf8(_, _)
IsUtf8(s, i) ==
    IF i > Len(s) THEN TRUE
    ELSE IF s[i] < 128 THEN IsUtf8(s, i + 1)
    ELSE IF s[i] >= 194 /\ s[i] <= 223
    THEN /\ i + 1 <= Len(s)
         /\ Continuation(s[i + 1])
         /\ IsUtf8(s, i + 2)
    ELSE IF s[i] >= 224 /\ s[i] <= 239
    THEN /\ i + 2 <= Len(s)
         /\ Continuation(s[i + 1]) /\ Continuation(s[i + 2])
         /\ s[i] = 224 => s[i + 1] >= 160
         /\ s[i] = 237 => s[i + 1] <= 159
         /\ IsUtf8(s, i + 3)
    ELSE IF s[i] >= 240 /\ s[i] <= 244
    THEN /\ i + 3 <= Len(s)
         /\ Continuation(s[i + 1]) /\ Continuation(s[i + 2]) /\ Continuation(s[i + 3])
         /\ s[i] = 240 => s[i + 1] >= 144
         /\ s[i] = 244 => s[i + 1] <= 143
         /\ IsUtf8(s, i + 4)
    ELSE FALSE

Repeat(c, n) == [i \in 1..n |-> c]

\* the instance strings of at most n bytes, the three long ones ("0x" and 16
\* times 'f', "0x1" and 16 times '0', "0x0" and 16 times 'f'), and two with a
\* character of several bytes at the start (U+20AC "1f", "a" U+00E9 "1f")
InstanceInputs(n) ==
    {s \in SeqsUpTo(InstanceBytes, n) : IsUtf8(s, 1)}
    \cup {<<48, 120>> \o Repeat(102, 16),
          <<48, 120, 49>> \o Repeat(48, 16),
          <<48, 120, 48>> \o Repeat(102, 16),
          <<226, 130, 172, 49, 102>>,
          <<97, 195, 169, 49, 102>>}

Idle ==
    /\ phase = "idle"
    /\ result = "none"
    /\ records = 0
    /\ vertices = EmptyMap
    /\ initiators = <<>>
    /\ column_hash = EmptyMap
    /\ max_depth = 0
    /\ max_height = 0
    /\ depth = 0
    /\ index = 0
    /\ document = <<>>
    /\ svg_file = "absent"
    /\ html_file = "absent"
    /\ html_writes = 0

InitInstance ==
    /\ Idle
    /\ arg \in InstanceInputs(MaxInstanceLen)
    /\ ret = [err |-> "none", val |-> U64Zero]

DecodeInstance ==
    /\ ret.err = "none"
    /\ ret' = decode_instance(arg)
    /\ UNCHANGED <<arg, runvars>>

NextInstance == DecodeInstance

SpecInstance == InitInstance /\ [][NextInstance]_vars

(***************************************************************************)
(* parse_prop on its own, over small property nvlists.                     *)
(***************************************************************************)
StrInputs == {NoneStr, SomeStr("v")}
ElementInputs == {[value |-> v] : v \in {NoneStr, SomeStr("a"), SomeStr("b")}}
PairNames == {NoneStr, SomeStr(PROP_NAME), SomeStr(PROP_VALUE), SomeStr("other")}

NvpairInputs ==
    [name : PairNames, value : StrInputs,
     nvpair_elements : {None} \cup {Some(s) : s \in SeqsUpTo(ElementInputs, MaxElements)},
     nvlist_elements : {None}]

\* the property of the specification's example: the array value ["a","b","c"]
ExampleNvl ==
    [nvpairs |-> Some(<<
        [name |-> SomeStr(PROP_NAME), value |-> SomeStr("n"), nvpair_elements |-> None,
         nvlist_elements |-> None],
        [name |-> SomeStr(PROP_VALUE), value |-> NoneStr,
         nvpair_elements |-> Some(<<[value |-> SomeStr("a")], [value |-> SomeStr("b")],
                                    [value |-> SomeStr("c")]>>),
         nvlist_elements |-> None]>>)]

\* the property nvlists of at most n nvpairs, and the example
NvlInputs(n) ==
    {[nvpairs |-> None]}
    \cup {[nvpairs |-> Some(s)] : s \in SeqsUpTo(NvpairInputs, n)}
    \cup {ExampleNvl}

InitProp ==
    /\ Idle
    /\ arg \in NvlInputs(MaxPairs)
    /\ ret = [err |-> "none", name |-> "", value |-> ""]

ParseProp ==
    /\ ret.err = "none"
    /\ ret' = parse_prop(arg)
    /\ UNCHANGED <<arg, runvars>>

NextProp == ParseProp

SpecProp == InitProp /\ [][NextProp]_vars

(***************************************************************************)
(* build_svg on graphs deep and high enough to outgrow the smallest        *)
(* canvas.  A comb graph has r initiators 1..r; below initiator 1 hangs a  *)
(* chain that makes a path of d vertices; the j-th vertex of that path has *)
(* f more edges, to f leaves.  The state is the one run() is in when it    *)
(* has read the records of such a graph.                                   *)
(***************************************************************************)
\* the j-th vertex of the chain (initiator 1 is the first)
ChainId(r, j) == IF j = 1 THEN 1 ELSE r + j - 1

CombEdges(r, d, j, f, v) ==
    LET down == IF \E k \in 1..(d - 1) : v = ChainId(r, k)
                THEN <<v + (IF v = 1 THEN r ELSE 1)>>
                ELSE <<>>
        fan == IF v = ChainId(r, j) THEN [i \in 1..f |-> r + d - 1 + i] ELSE <<>>
    IN  IF down \o fan = <<>> THEN None ELSE Some(down \o fan)

CombName(r, d, v) ==
    IF v <= r THEN INITIATOR
    ELSE IF v > r + d - 1 THEN TARGET
    ELSE IF v % 2 = 0 THEN PORT ELSE EXPANDER

CombGraph(r, d, j, f) ==
    [v \in 1..(r + d - 1 + f) |->
        SasDigraphVertex(v, CombName(r, d, v), <<0, 0, 0, v>>, CombEdges(r, d, j, f, v))]

InitCanvas ==
    /\ \E r \in 1..MaxRoots, d \in 1..MaxChain, f \in 0..MaxFan :
          \E j \in 1..d :
             /\ vertices = CombGraph(r, d, j, f)
             /\ initiators = [i \in 1..r |-> i]
    /\ phase = "run"
    /\ result = "none"
    /\ records = Cardinality(DOMAIN vertices)
    /\ column_hash = EmptyMap
    /\ max_depth = 0
    /\ max_height = 0
    /\ depth = 0
    /\ index = 0
    /\ document = <<>>
    /\ svg_file = "absent"
    /\ html_file = "absent"
    /\ html_writes = 0
    /\ arg = <<>>
    /\ ret = [err |-> "none"]

NextCanvas ==
    \/ Layering
    \/ EmitNode
    \/ EmitConnectors

SpecCanvas == InitCanvas /\ [][NextCanvas]_vars


(***************************************************************************)
(* The graph, described without the walk.                                  *)
(***************************************************************************)
Range(seq) == {seq[i] : i \in DOMAIN seq}

\* run() has read its whole input and the walk has returned Ok
Layered ==
    \/ phase \in {"nodes", "edges", "mkdir", "copy", "save", "create", "write"}
    \/ /\ phase = "done"
       /\ result \in {"Ok", "UnexpectedVertexName", "IoCreateDir", "IoCurrentExe",
                      "PanicSrcDir", "IoCopyAssets", "IoSaveSvg", "IoCreateHtml",
                      "IoWriteHtml"}

\* the walk has just returned Ok: the document holds no node yet.  Nothing
\* that follows changes the layers, the edges or the initiators.
WalkReturned == Layered /\ Len(document) = 3

\* build_svg is building the document or has just built it.  The output
\* steps that follow change neither the document nor the graph.
Building ==
    \/ phase \in {"nodes", "edges", "mkdir"}
    \/ phase = "done" /\ result = "UnexpectedVertexName"

\* run() has read its whole input and the walk has returned, somehow
Walked ==
    \/ Layered
    \/ phase = "done" /\ result \in {"LookupFailure", "StackOverflow", "CycleDetected"}

EdgesOf(v) == vertices[v].outgoing_edges.val

\* the vertices an edge of v leads to
Succ(v) == Range(EdgesOf(v)) \cap DOMAIN vertices

RECURSIVE ReachFrom(_)
ReachFrom(S) ==
    LET next == S \cup UNION {Succ(v) : v \in S}
    IN  IF next = S THEN S ELSE ReachFrom(next)

Roots == Range(initiators) \cap DOMAIN vertices

Reachable == ReachFrom(Roots)

CycleReachable == \E v \in Reachable : v \in ReachFrom(Succ(v))

HasDanglingEdge(v) == \E i \in DOMAIN EdgesOf(v) : EdgesOf(v)[i] \notin DOMAIN vertices

\* the vertices at the end of a path of d vertices that starts at a root
RECURSIVE PathEnds(_)
PathEnds(d) ==
    IF d = 1 THEN Roots ELSE UNION {Succ(v) : v \in PathEnds(d - 1)}

\* the number of vertices of the longest path from a root, when there is no cycle
LongestPath ==
    LET lens == {d \in 1..NumVertices : PathEnds(d) # {}}
    IN  IF lens = {} THEN 0 ELSE CHOOSE d \in lens : \A e \in lens : e <= d

RECURSIVE Flatten(_)
Flatten(seqs) == IF seqs = <<>> THEN <<>> ELSE Head(seqs) \o Flatten(Tail(seqs))

\* the visits at depth d, level by level: the roots in root-list order, then
\* for every visit of the level above, in order, its edges in edge-list order
RECURSIVE Level(_)
Level(d) ==
    IF d = 1 THEN initiators
    ELSE LET above == Level(d - 1)
         IN  Flatten([i \in DOMAIN above |-> EdgesOf(above[i])])

LayerOf(d) == IF d \in DOMAIN column_hash THEN column_hash[d] ELSE <<>>

\* C1: on a graph with no cycle reachable from its roots the walk ends by
\* returning (the stack is never exhausted); when it returns Ok, max_depth is
\* the number of vertices of the longest path from a root, and every
\* identifier of layer d is the end of a path of d vertices that starts at a
\* root.
C1_LayeringDepth ==
    /\ (phase = "done" /\ result = "StackOverflow") => CycleReachable
    /\ WalkReturned =>
          /\ ~CycleReachable
          /\ max_depth = LongestPath
          /\ \A d \in DOMAIN column_hash :
                \A i \in DOMAIN column_hash[d] : column_hash[d][i] \in PathEnds(d)

\* C9: after the walk, layer d holds one entry per visit at depth d, without
\* deduplication, in pre-order (roots in root-list order, edges in edge-list
\* order), and max_height is the largest length of the layers 1..max_depth.
C9_LayerLists ==
    WalkReturned =>
       /\ DOMAIN column_hash = 1..max_depth
       /\ \A d \in 1..(NumVertices + 1) : LayerOf(d) = Level(d)
       /\ \A d \in 1..max_depth : Len(Level(d)) <= max_height
       /\ \/ max_depth = 0 /\ max_height = 0
          \/ \E d \in 1..max_depth : Len(Level(d)) = max_height

\* a vertex reached twice at the same depth is twice in its layer
C9_Witness ==
    /\ Layered
    /\ \E d \in DOMAIN column_hash :
          \E i, j \in DOMAIN column_hash[d] : i # j /\ column_hash[d][i] = column_hash[d][j]

\* the input has an edge whose target is no vertex
SomeDanglingEdge == \E v \in DOMAIN vertices : HasDanglingEdge(v)

NoOutputFile == svg_file = "absent" /\ html_file = "absent"

\* C2: whenever some vertex record, reachable from a root or not, lists an
\* edge target that is no key of the vertex map, run fails with the lookup
\* failure and creates neither output file: run never returns Ok on such an
\* input, and never gets as far as writing a file.
C2_DanglingEdgeFails ==
    (Walked /\ SomeDanglingEdge) =>
       /\ NoOutputFile
       /\ phase = "done" => result # "Ok"

(***************************************************************************)
(* The document, described without the loops that build it.                *)
(***************************************************************************)
IsNode(e) == e.kind = "node"
IsLine(e) == e.kind = "line"

Nodes == SelectSeq(document, IsNode)
Lines == SelectSeq(document, IsLine)

\* the entries of the layers 1..max_depth, layer after layer
LayerEntries == Flatten([d \in 1..max_depth |-> column_hash[d]])

\* the positions of vertex v among the node primitives, the lines, the entries
NodesIn(nodes, v) == {i \in DOMAIN nodes : nodes[i].vtx = v}
LinesIn(lines, v, role) == {i \in DOMAIN lines : lines[i].src = v /\ lines[i].role = role}
VisitsIn(entries, v) == {i \in DOMAIN entries : entries[i] = v}

NodesOf(v) == NodesIn(Nodes, v)

\* the node loop has run to its end
NodesDone ==
    /\ Layered
    /\ phase # "nodes"
    /\ result # "UnexpectedVertexName"

\* the edge loop has run to its end
EdgesDone == NodesDone /\ phase # "edges"

\* C3: after the connector phase, a vertex with no outgoing edge (no list or
\* an empty one) has no connector, and a vertex with k outgoing edges has one
\* exit connector and k pairs of routing connectors.  Stated for the vertices
\* that the walk visited exactly once.
C3_ConnectorCount ==
    EdgesDone =>
       LET lines == Lines
           entries == LayerEntries
       IN  \A v \in DOMAIN vertices :
              Cardinality(VisitsIn(entries, v)) = 1 =>
                 LET k == Len(EdgesOf(v))
                 IN  /\ Cardinality(LinesIn(lines, v, "exit")) = (IF k = 0 THEN 0 ELSE 1)
                     /\ Cardinality(LinesIn(lines, v, "mid")) = k
                     /\ Cardinality(LinesIn(lines, v, "end")) = k

\* C4, as the specification states it: after the node phase every vertex of
\* the graph has exactly one node primitive.
C4_OneNodePerVertex ==
    NodesDone => \A v \in DOMAIN vertices : Cardinality(NodesOf(v)) = 1

\* the value of attribute a of the group of vertex v: the value of the last
\* property of v that is named a, and tag when v has no such property
Tagged(v, a, tag) ==
    LET props == vertices[v].properties
        named == {i \in DOMAIN props : props[i].name = a}
    IN  IF named = {} THEN tag ELSE props[CHOOSE i \in named : \A j \in named : j <= i].value

\* C4, amended: the node primitives are, in order, the entries of the layers
\* 1..max_depth, layer after layer and in list order within a layer, each
\* for the vertex of its entry and tagged with the identifier and the kind of
\* that vertex, unless the vertex has a property named fmri or name, whose
\* value is the tag then; so a vertex has as many node primitives as the walk
\* visited it (none when no root reaches it).
C4_NodePerLayerEntry ==
    Building =>
       LET nodes == Nodes
           entries == LayerEntries
       IN  /\ Len(nodes) <= Len(entries)
           /\ NodesDone => Len(nodes) = Len(entries)
           /\ \A i \in DOMAIN nodes :
                 /\ nodes[i].vtx = entries[i]
                 /\ nodes[i].attrs["fmri"] = Tagged(entries[i], "fmri", ToString(entries[i]))
                 /\ nodes[i].attrs["name"] = Tagged(entries[i], "name", vertices[entries[i]].name)
                 /\ i > 1 => nodes[i - 1].x <= nodes[i].x
           /\ NodesDone =>
                 \A v \in DOMAIN vertices :
                    Cardinality(NodesIn(nodes, v)) = Cardinality(VisitsIn(entries, v))

\* the node phase is over; one vertex was placed twice, another never
C4_Witness ==
    /\ NodesDone
    /\ \E v \in DOMAIN vertices : Cardinality(NodesOf(v)) = 2
    /\ \E v \in DOMAIN vertices : Cardinality(NodesOf(v)) = 0

\* C5: when a cycle is reachable from a root, the walk fails with
\* CycleDetected (or with the lookup failure it met before it closed the
\* cycle); run ends with a result or an error.
C5_CycleDetected ==
    (Walked /\ CycleReachable) => result \in {"CycleDetected", "LookupFailure"}

IoErrors == {"IoReadInput", "IoCreateDir", "IoCurrentExe", "IoCopyAssets", "IoSaveSvg",
             "IoCreateHtml", "IoWriteHtml"}

\* the errors run returns (a panic and a stack overflow end the process instead)
RunErrors ==
    {"Deserialize", "MalformedInput", "UnexpectedNvpairName", "MalformedPropgroup",
     "UnexpectedVertexName", "LookupFailure"} \cup IoErrors

\* C6, as the specification states it: when run returns an error neither
\* output file has been written, when it returns Ok both have been.
C6_AllOrNothing ==
    phase = "done" =>
       /\ result \in RunErrors => NoOutputFile
       /\ result = "Ok" => svg_file = "written" /\ html_file = "written"

\* C6, amended: when run returns Ok both files have been written; when it
\* returns an error raised before the SVG is saved (malformed input, unknown
\* kind, lookup failure, directory creation, asset copy) neither file exists;
\* a failed save leaves no HTML file and the SVG absent or incomplete; a
\* failed creation or write of the HTML file leaves the SVG written and the
\* HTML file absent or incomplete.
C6_OutputsByStep ==
    phase = "done" =>
       /\ result = "Ok" =>
             svg_file = "written" /\ html_file = "written" /\ html_writes = HtmlWriteCalls
       /\ result \in RunErrors \ {"IoSaveSvg", "IoCreateHtml", "IoWriteHtml"} => NoOutputFile
       /\ result = "IoSaveSvg" => svg_file \in {"absent", "partial"} /\ html_file = "absent"
       /\ result = "IoCreateHtml" => svg_file = "written" /\ html_file = "absent"
       /\ result = "IoWriteHtml" =>
             svg_file = "written" /\ html_file \in {"created", "partial"}

\* run has returned an error and sastopo.svg is there, next to half an HTML
\* file: the first write has failed after it wrote part of its bytes
C6_Witness ==
    /\ phase = "done"
    /\ result = "IoWriteHtml"
    /\ svg_file = "written"
    /\ html_file = "partial"
    /\ html_writes = 0

\* the largest element of a set of positions
Last(S) == CHOOSE i \in S : \A j \in S : j <= i

\* C10: no connector is in the document before every node primitive is and
\* the geometry of every placed vertex is written; the exit connector of u
\* runs from (u.x+120, u.y+60) to (u.x+170, u.y+60), the vertical segment of
\* the edge u->v from there to (u.x+170, v.y+60), the horizontal one from
\* there to (v.x, v.y+60), with (x, y) the place of the vertex's node
\* primitive (the last one, when it has several).
C10_ConnectorsAfterNodes ==
    LET lines == IF Building THEN Lines ELSE <<>>
    IN  lines # <<>> =>
           LET nodes == Nodes
           IN  /\ NodesDone
               /\ Len(nodes) = Len(LayerEntries)
               /\ \A k \in DOMAIN lines :
                     LET l == lines[k]
                         us == NodesIn(nodes, l.src)
                         vs == NodesIn(nodes, l.dst)
                     IN  /\ us # {} /\ vs # {}
                         /\ LET u == nodes[Last(us)]
                                v == nodes[Last(vs)]
                            IN  /\ vertices[l.src].geometry = SasGeometry(u.x, u.y, 120, 120)
                                /\ vertices[l.dst].geometry = SasGeometry(v.x, v.y, 120, 120)
                                /\ l.role = "exit" =>
                                      <<l.x1, l.y1, l.x2, l.y2>>
                                         = <<u.x + 120, u.y + 60, u.x + 170, u.y + 60>>
                                /\ l.role = "mid" =>
                                      <<l.x1, l.y1, l.x2, l.y2>>
                                         = <<u.x + 170, u.y + 60, u.x + 170, v.y + 60>>
                                /\ l.role = "end" =>
                                      <<l.x1, l.y1, l.x2, l.y2>>
                                         = <<u.x + 170, v.y + 60, v.x, v.y + 60>>

\* a connector arrives at a vertex that is not in the first row
C10_Witness ==
    \E k \in DOMAIN Lines :
       /\ Lines[k].role = "end"
       /\ Lines[k].y2 > 70
       /\ Lines[k].x2 > 50

(***************************************************************************)
(* Instance strings and property nvlists, described without the decoders.  *)
(***************************************************************************)
\* the bytes of '0'..'9', 'A'..'F', 'a'..'f'
HexBytes == (48..57) \cup (65..70) \cup (97..102)

RECURSIVE StripZeros(_)
StripZeros(s) == IF s # <<>> /\ Head(s) = 48 THEN StripZeros(Tail(s)) ELSE s

\* the string is a marker of two bytes and a hex body that fits 64 bits
ValidInstance(s) ==
    /\ Len(s) >= 3
    /\ \A i \in 3..Len(s) : s[i] \in HexBytes
    /\ Len(StripZeros(SubSeq(s, 3, Len(s)))) <= 16

\* C7: a string with a valid hex body decodes to its value ("0x1f" to 31);
\* every other string makes run return the error value, never anything else.
C7_InstanceDecoding ==
    ret.err # "none" =>
       IF ValidInstance(arg)
       THEN /\ ret.err = "Ok"
            /\ arg = <<48, 120, 49, 102>> => ret.val = <<0, 0, 0, 31>>
       ELSE ret.err = "ParseIntError"

NamePairs(ps) == {i \in DOMAIN ps : ps[i].name = SomeStr(PROP_NAME)}
ValuePairs(ps) == {i \in DOMAIN ps : ps[i].name = SomeStr(PROP_VALUE)}
\* the name child and the value child of the node are there and hold a value
Resolves(nvl) ==
    /\ nvl.nvpairs.some
    /\ LET ps == nvl.nvpairs.val
       IN  /\ \A i \in DOMAIN ps : ps[i].name.some
           /\ NamePairs(ps) # {}
           /\ ValuePairs(ps) # {}
           /\ \A i \in NamePairs(ps) : ps[i].value.some
           /\ \A i \in ValuePairs(ps) :
                 IF ps[i].nvpair_elements.some
                 THEN \A e \in DOMAIN ps[i].nvpair_elements.val :
                         ps[i].nvpair_elements.val[e].value.some
                 ELSE ps[i].value.some

\* C8: parse_prop returns the property of a node whose name and value
\* resolve (the scalar value, or the elements joined with ","), and the
\* malformed-input error for every other node, with no other outcome.
C8_ParsePropTotal ==
    ret.err # "none" =>
       IF Resolves(arg)
       THEN LET ps == arg.nvpairs.val
                vp == ps[Last(ValuePairs(ps))]
            IN  /\ ret.err = "Ok"
                /\ ret.name = ps[Last(NamePairs(ps))].value.val
                /\ ~vp.nvpair_elements.some => ret.value = vp.value.val
                /\ arg = ExampleNvl => ret.value = "a,b,c"
       ELSE ret.err = "MalformedInput"

\* C11: every node primitive lies inside the canvas written to the wrapper
\* document: x + 120 <= max(1200, max_depth * 250) and
\* y + 120 <= max(1100, max_height * 150); the spacing factor of every
\* position is at least 1, so two node primitives of one layer (the same x)
\* never have the same y, and the position h of a layer is at (h - 1) * 150
\* + 10 or below it.
C11_NodesInsideCanvas ==
    Layered =>
       LET nodes == Nodes
           entries == LayerEntries
       IN  /\ \A i \in DOMAIN nodes :
                 /\ nodes[i].x + 120 <= svg_width
                 /\ nodes[i].y + 120 <= svg_height
                 /\ \A j \in DOMAIN nodes :
                       (i < j /\ nodes[i].x = nodes[j].x) =>
                          nodes[j].y >= nodes[i].y + 150
           /\ \A d \in 1..max_depth :
                 \A h \in 1..Len(column_hash[d]) :
                    y_factor(h, max_height, Len(column_hash[d])) >= 1

\* a layer of two below a layer of eight or more, and a node primitive right
\* of x = 1200 and below y = 1100: the canvas is larger than its minimum
C11_Witness ==
    /\ NodesDone
    /\ \E d \in 1..max_depth : Len(column_hash[d]) = 2 /\ max_height >= 8
    /\ \E i \in DOMAIN Nodes :
          /\ Nodes[i].x + 120 > MinSvgWidth
          /\ Nodes[i].y + 120 > MinSvgHeight
====
